---- MODULE Spec2Model ----
(***************************************************************************)
(* Hybrid retrieval and score fusion: backend/app/services/retriever.py.   *)
(*                                                                         *)
(* Scores are fixed-point: vector_score and graph_score are written in     *)
(* tenths (7 is 0.7), the weights in tenths (6 is 0.6), final_score and    *)
(* similarity thresholds in hundredths (74 is 0.74, 95 is 0.95).  A text   *)
(* is a sequence of one-character strings.  A RetrievedChunk object lives  *)
(* on the heap and is named by its index there, so that the in-place       *)
(* writes of _merge_and_rerank are visible through every list holding it.  *)
(***************************************************************************)
EXTENDS Integers, Sequences, FiniteSets, TLC

\* ------------------------------------------------------------------ bounds
\* most RetrievedChunk objects built for one call (both result lists together)
MaxChunks == 4
\* largest top_k a caller passes
MaxTopK == 3

\* ------------------------------------------------------- program constants
TOP_K_RETRIEVAL == 20
GRAPH_TRAVERSAL_DEPTH == 3
DefaultVectorWeight == 6
DefaultGraphWeight == 4
DefaultSimilarityThreshold == 95
GraphMaxResults == 50
OversampleFactor == 2

\* ------------------------------------------------------------------- texts
Space == " "
Whitespace == {Space}

\* str.lower() on one character
LowerChar(ch) == IF ch = "A" THEN "a" ELSE IF ch = "B" THEN "b" ELSE ch

\* str.lower(): every character lowered, length kept
Lower(text) == [i \in 1..Len(text) |-> LowerChar(text[i])]

\* str.split() with no separator: the maximal runs of non-whitespace
\* characters, in order; leading, trailing and repeated whitespace give no
\* empty word
RECURSIVE SplitFrom(_, _, _, _)
SplitFrom(text, i, cur, acc) ==
    IF i > Len(text)
    THEN IF cur = <<>> THEN acc ELSE Append(acc, cur)
    ELSE IF text[i] \in Whitespace
         THEN SplitFrom(text, i + 1, <<>>,
                        IF cur = <<>> THEN acc ELSE Append(acc, cur))
         ELSE SplitFrom(text, i + 1, Append(cur, text[i]), acc)

Split(text) == SplitFrom(text, 1, <<>>, <<>>)

\* set(...) of a list
ToSet(s) == {s[i] : i \in 1..Len(s)}

\* set(text.lower().split())
WordSet(text) == ToSet(Split(Lower(text)))

\* ------------------------------------------------------------ string table
\* A str object is immutable and held by reference: a text field holds the
\* name of an entry of this table, and str operations read the characters.
\* T19 and T20 share 19 of 20 words (ratio exactly 0.95), T20 and T21 share
\* 20 of 21 (above 0.95) once "A" is lowered, T19 and T21 share 19 of 21,
\* TU has the one word "u" twice, around two spaces.
T19chars == <<"a", " ", "b", " ", "c", " ", "d", " ", "e", " ", "f", " ", "g", " ", "h", " ", "i", " ", "j", " ", "k", " ", "l", " ", "m", " ", "n", " ", "o", " ", "p", " ", "q", " ", "r", " ", "s">>
T20chars == <<"a", " ", "b", " ", "c", " ", "d", " ", "e", " ", "f", " ", "g", " ", "h", " ", "i", " ", "j", " ", "k", " ", "l", " ", "m", " ", "n", " ", "o", " ", "p", " ", "q", " ", "r", " ", "s", " ", "t">>
T21chars == <<"A", " ", "b", " ", "c", " ", "d", " ", "e", " ", "f", " ", "g", " ", "h", " ", "i", " ", "j", " ", "k", " ", "l", " ", "m", " ", "n", " ", "o", " ", "p", " ", "q", " ", "r", " ", "s", " ", "t", " ", "u">>
TUchars == <<"u", " ", " ", "U">>

Strings == [T19 |-> T19chars, T20 |-> T20chars, T21 |-> T21chars, TU |-> TUchars]

\* text1 == text2 on str objects compares the characters
StrEq(text1, text2) == Strings[text1] = Strings[text2]

\* set(text.lower().split()) of every string of the table, computed once
Words == [t \in DOMAIN Strings |-> WordSet(Strings[t])]

\* a ratio num/den as a pair; den > 0
Ratio(num, den) == <<num, den>>
RatioGT(r, hundredths) == r[1] * 100 > hundredths * r[2]
RatioLE(r, hundredths) == r[1] * 100 <= hundredths * r[2]
RatioLT(r, hundredths) == r[1] * 100 < hundredths * r[2]

\* variant: the intersection measured against the smaller word set
OverlapRatioOfSmaller(words1, words2) ==
    IF words1 = {} \/ words2 = {}
    THEN Ratio(0, 1)
    ELSE Ratio(Cardinality(words1 \cap words2),
               IF Cardinality(words1) < Cardinality(words2)
               THEN Cardinality(words1) ELSE Cardinality(words2))
\* _compute_overlap once the two word sets are built: 0.0 if either is
\* empty, else len(intersection) / len(union)
OverlapRatio(words1, words2) ==
    IF words1 = {} \/ words2 = {}
    THEN Ratio(0, 1)
    ELSE LET intersection == words1 \cap words2
             union == words1 \cup words2
         IN  IF union # {}
             THEN Ratio(Cardinality(intersection), Cardinality(union))
             ELSE Ratio(0, 1)

\* HybridRetriever._compute_overlap on two strings of the table
_compute_overlap(text1, text2) == OverlapRatio(Words[text1], Words[text2])

\* ------------------------------------------------------------ the heap
\* RetrievedChunk.__init__: the fields of one object
RetrievedChunk(chunk_id, document_id, text, hierarchy_path, vector_score, graph_score, final_score, metadata) ==
    [chunk_id |-> chunk_id, document_id |-> document_id, text |-> text,
     hierarchy_path |-> hierarchy_path, vector_score |-> vector_score,
     graph_score |-> graph_score, final_score |-> final_score,
     metadata |-> metadata]

\* ------------------------------------------------------ diversity filter
\* the inner loop of _enforce_diversity: is_duplicate after comparing the
\* text with every selected text (exact match, or overlap above threshold)
\* variants: only the exact comparison, only the overlap comparison, an
\* overlap equal to the threshold rejected too
IsDuplicateExactOnly(text, selected_texts, similarity_threshold) ==
    \E selected_text \in selected_texts : StrEq(text, selected_text)
IsDuplicateOverlapOnly(text, selected_texts, similarity_threshold) ==
    \E selected_text \in selected_texts :
        RatioGT(_compute_overlap(text, selected_text), similarity_threshold)
IsDuplicateAtThreshold(text, selected_texts, similarity_threshold) ==
    \E selected_text \in selected_texts :
        \/ StrEq(text, selected_text)
        \/ ~RatioLT(_compute_overlap(text, selected_text), similarity_threshold)
IsDuplicate(text, selected_texts, similarity_threshold) ==
    \E selected_text \in selected_texts :
        \/ StrEq(text, selected_text)
        \/ RatioGT(_compute_overlap(text, selected_text), similarity_threshold)

\* variant: the loop ends at the first duplicate it meets
RECURSIVE DiversityLoopEndsAtDuplicate(_, _, _, _, _, _, _)
DiversityLoopEndsAtDuplicate(h, chunks, i, top_k, similarity_threshold, selected, selected_texts) ==
    IF i > Len(chunks) THEN selected
    ELSE IF Len(selected) >= top_k THEN selected
    ELSE IF IsDuplicate(h[chunks[i]].text, selected_texts, similarity_threshold)
         THEN selected
         ELSE DiversityLoopEndsAtDuplicate(h, chunks, i + 1, top_k,
                                           similarity_threshold,
                                           Append(selected, chunks[i]),
                                           selected_texts \cup {h[chunks[i]].text})

\* variant: the loop never stops on the length of selected
RECURSIVE DiversityLoopNoBreak(_, _, _, _, _, _, _)
DiversityLoopNoBreak(h, chunks, i, top_k, similarity_threshold, selected, selected_texts) ==
    IF i > Len(chunks) THEN selected
    ELSE IF IsDuplicate(h[chunks[i]].text, selected_texts, similarity_threshold)
         THEN DiversityLoopNoBreak(h, chunks, i + 1, top_k, similarity_threshold,
                                   selected, selected_texts)
         ELSE DiversityLoopNoBreak(h, chunks, i + 1, top_k, similarity_threshold,
                                   Append(selected, chunks[i]),
                                   selected_texts \cup {h[chunks[i]].text})

\* the outer loop of _enforce_diversity, from position i of chunks
RECURSIVE DiversityLoop(_, _, _, _, _, _, _)
DiversityLoop(h, chunks, i, top_k, similarity_threshold, selected, selected_texts) ==
    IF i > Len(chunks) THEN selected
    ELSE IF Len(selected) >= top_k THEN selected
    ELSE IF IsDuplicate(h[chunks[i]].text, selected_texts, similarity_threshold)
         THEN DiversityLoop(h, chunks, i + 1, top_k, similarity_threshold,
                            selected, selected_texts)
         ELSE DiversityLoop(h, chunks, i + 1, top_k, similarity_threshold,
                            Append(selected, chunks[i]),
                            selected_texts \cup {h[chunks[i]].text})

\* HybridRetriever._enforce_diversity: chunks is a list of heap references
\* variant: nothing is selected when top_k is not positive
_enforce_diversity_checks_top_k(h, chunks, top_k, similarity_threshold) ==
    IF chunks = <<>> \/ top_k <= 0 THEN <<>>
    ELSE DiversityLoop(h, chunks, 2, top_k, similarity_threshold,
                       <<chunks[1]>>, {h[chunks[1]].text})
\* variant: the loop stops one selection late
_enforce_diversity_off_by_one(h, chunks, top_k, similarity_threshold) ==
    IF chunks = <<>> THEN <<>>
    ELSE DiversityLoop(h, chunks, 2, top_k + 1, similarity_threshold,
                       <<chunks[1]>>, {h[chunks[1]].text})
_enforce_diversity(h, chunks, top_k, similarity_threshold) ==
    IF chunks = <<>> THEN <<>>
    ELSE DiversityLoop(h, chunks, 2, top_k, similarity_threshold,
                       <<chunks[1]>>, {h[chunks[1]].text})

\* ------------------------------------------------------- merge and rerank
\* chunk_map is a dict: a sequence of <<chunk_id, reference>> in the order
\* the keys were first inserted
MapHas(chunk_map, id) == \E j \in 1..Len(chunk_map) : chunk_map[j][1] = id
MapGet(chunk_map, id) ==
    chunk_map[CHOOSE j \in 1..Len(chunk_map) : chunk_map[j][1] = id][2]
\* chunk_map[id] = ref: an existing key keeps its place and takes the value
\* variant: a list of pairs instead of a dict, every assignment appends
MapPutAppend(chunk_map, id, ref) == Append(chunk_map, <<id, ref>>)
MapPut(chunk_map, id, ref) ==
    IF MapHas(chunk_map, id)
    THEN [j \in 1..Len(chunk_map) |->
            IF chunk_map[j][1] = id THEN <<id, ref>> ELSE chunk_map[j]]
    ELSE Append(chunk_map, <<id, ref>>)
MapValues(chunk_map) == [j \in 1..Len(chunk_map) |-> chunk_map[j][2]]

\* "for chunk in vector_results: chunk_map[chunk.chunk_id] = chunk"
RECURSIVE AddVectorResults(_, _, _, _)
AddVectorResults(h, vector_results, i, chunk_map) ==
    IF i > Len(vector_results) THEN chunk_map
    ELSE AddVectorResults(h, vector_results, i + 1,
            MapPut(chunk_map, h[vector_results[i]].chunk_id, vector_results[i]))

\* variant: a graph result takes the place of the mapped vector result
RECURSIVE MergeGraphResultsReplace(_, _, _, _)
MergeGraphResultsReplace(h, graph_results, i, chunk_map) ==
    IF i > Len(graph_results) THEN [heap |-> h, chunk_map |-> chunk_map]
    ELSE MergeGraphResultsReplace(h, graph_results, i + 1,
            MapPut(chunk_map, h[graph_results[i]].chunk_id, graph_results[i]))

\* variant: the mapped object keeps the highest graph score met
RECURSIVE MergeGraphResultsKeepMax(_, _, _, _)
MergeGraphResultsKeepMax(h, graph_results, i, chunk_map) ==
    IF i > Len(graph_results) THEN [heap |-> h, chunk_map |-> chunk_map]
    ELSE LET chunk == graph_results[i]
             id == h[chunk].chunk_id
         IN  IF MapHas(chunk_map, id)
             THEN LET existing == MapGet(chunk_map, id)
                  IN  MergeGraphResultsKeepMax(
                        [h EXCEPT ![existing].graph_score =
                            IF h[chunk].graph_score > @ THEN h[chunk].graph_score ELSE @],
                        graph_results, i + 1, chunk_map)
             ELSE MergeGraphResultsKeepMax(h, graph_results, i + 1,
                                           MapPut(chunk_map, id, chunk))

\* variant: the graph score is added to the mapped object's graph score
RECURSIVE MergeGraphResultsAccumulate(_, _, _, _)
MergeGraphResultsAccumulate(h, graph_results, i, chunk_map) ==
    IF i > Len(graph_results) THEN [heap |-> h, chunk_map |-> chunk_map]
    ELSE LET chunk == graph_results[i]
             id == h[chunk].chunk_id
         IN  IF MapHas(chunk_map, id)
             THEN LET existing == MapGet(chunk_map, id)
                  IN  MergeGraphResultsAccumulate(
                        [h EXCEPT ![existing].graph_score = @ + h[chunk].graph_score],
                        graph_results, i + 1, chunk_map)
             ELSE MergeGraphResultsAccumulate(h, graph_results, i + 1,
                                              MapPut(chunk_map, id, chunk))

\* "for chunk in graph_results": an id already in the map has the graph
\* score of the mapped object overwritten in place, a new id is inserted
RECURSIVE MergeGraphResults(_, _, _, _)
MergeGraphResults(h, graph_results, i, chunk_map) ==
    IF i > Len(graph_results) THEN [heap |-> h, chunk_map |-> chunk_map]
    ELSE LET chunk == graph_results[i]
             id == h[chunk].chunk_id
         IN  IF MapHas(chunk_map, id)
             THEN LET existing == MapGet(chunk_map, id)
                  IN  MergeGraphResults(
                        [h EXCEPT ![existing].graph_score = h[chunk].graph_score],
                        graph_results, i + 1, chunk_map)
             ELSE MergeGraphResults(h, graph_results, i + 1,
                                    MapPut(chunk_map, id, chunk))

\* the weighted sum of one object's scores
\* variant: the weights applied to the wrong scores
FinalScoreSwapped(chunk, vector_weight, graph_weight) ==
    graph_weight * chunk.vector_score + vector_weight * chunk.graph_score
FinalScore(chunk, vector_weight, graph_weight) ==
    vector_weight * chunk.vector_score + graph_weight * chunk.graph_score

\* variant: the weighted sum is stored in vector_score as well
ComputeFinalScoresIntoVector(h, refs, vector_weight, graph_weight) ==
    [r \in 1..Len(h) |->
        IF r \in ToSet(refs)
        THEN [h[r] EXCEPT !.final_score =
                             FinalScore(h[r], vector_weight, graph_weight),
                          !.vector_score =
                             FinalScore(h[r], vector_weight, graph_weight)]
        ELSE h[r]]
\* "for chunk in chunk_map.values(): chunk.final_score = ..."
ComputeFinalScores(h, refs, vector_weight, graph_weight) ==
    [r \in 1..Len(h) |->
        IF r \in ToSet(refs)
        THEN [h[r] EXCEPT !.final_score =
                             FinalScore(h[r], vector_weight, graph_weight)]
        ELSE h[r]]

\* list.sort(key=final_score, reverse=True) is stable: an element goes after
\* every element whose final score is greater than or equal to its own
\* variant: an element goes before the elements with its own final score
RECURSIVE InsertDescendingBeforeEqual(_, _, _)
InsertDescendingBeforeEqual(h, sorted, ref) ==
    IF sorted = <<>> THEN <<ref>>
    ELSE IF h[Head(sorted)].final_score > h[ref].final_score
         THEN <<Head(sorted)>> \o InsertDescendingBeforeEqual(h, Tail(sorted), ref)
         ELSE <<ref>> \o sorted
RECURSIVE InsertDescending(_, _, _)
InsertDescending(h, sorted, ref) ==
    IF sorted = <<>> THEN <<ref>>
    ELSE IF h[Head(sorted)].final_score >= h[ref].final_score
         THEN <<Head(sorted)>> \o InsertDescending(h, Tail(sorted), ref)
         ELSE <<ref>> \o sorted

RECURSIVE SortFrom(_, _, _, _)
SortFrom(h, refs, i, sorted) ==
    IF i > Len(refs) THEN sorted
    ELSE SortFrom(h, refs, i + 1, InsertDescending(h, sorted, refs[i]))

\* variant: the values left in map order
SortNotDone(h, refs) == refs
SortByFinalScore(h, refs) == SortFrom(h, refs, 1, <<>>)

\* HybridRetriever._merge_and_rerank: the heap after the call and the list
\* of references it returns
_merge_and_rerank(h, vector_results, graph_results, top_k, vector_weight, graph_weight) ==
    LET seeded == AddVectorResults(h, vector_results, 1, <<>>)
        merged == MergeGraphResults(h, graph_results, 1, seeded)
        values == MapValues(merged.chunk_map)
        scored == ComputeFinalScores(merged.heap, values,
                                     vector_weight, graph_weight)
        all_chunks == SortByFinalScore(scored, values)
    IN  [heap |-> scored,
         result |-> _enforce_diversity(scored, all_chunks, top_k,
                                       DefaultSimilarityThreshold)]


\* ------------------------------------------------------ provider data set
ChunkIds == {"c1", "c2", "c3"}

\* Hits the vector index may return: the payload fields _vector_search reads
\* and the similarity score in tenths.  c2 is indexed twice, with different
\* text and score; T20 is the text of two ids; T21 nearly repeats T20.
VectorHits ==
    { [chunk_id |-> "c1", document_id |-> 1, text |-> "T20",
       hierarchy_path |-> "L1>A1", score |-> 9, metadata |-> "m1"],
      [chunk_id |-> "c2", document_id |-> 1, text |-> "T19",
       hierarchy_path |-> "L1>A2", score |-> 7, metadata |-> "m2"],
      [chunk_id |-> "c3", document_id |-> 2, text |-> "T21",
       hierarchy_path |-> "L2>A1", score |-> 7, metadata |-> "m3"],
      [chunk_id |-> "c2", document_id |-> 2, text |-> "T20",
       hierarchy_path |-> "", score |-> 9, metadata |-> "m4"] }

\* Records the graph store may return: the fields _graph_traverse reads and
\* the path score in tenths.  c2 is reachable on two paths.
GraphRecords ==
    { [chunk_id |-> "c2", document_id |-> 1, text |-> "T19",
       hierarchy_path |-> "L1>A2", path_score |-> 8, metadata |-> "r1"],
      [chunk_id |-> "c3", document_id |-> 2, text |-> "TU",
       hierarchy_path |-> "L2>A1", path_score |-> 6, metadata |-> "r2"],
      [chunk_id |-> "c2", document_id |-> 1, text |-> "T19",
       hierarchy_path |-> "L1>A2", path_score |-> 6, metadata |-> "r3"],
      [chunk_id |-> "c1", document_id |-> 1, text |-> "T20",
       hierarchy_path |-> "L1>A1", path_score |-> 8, metadata |-> "r4"] }

\* exceptions a provider client may raise
ProviderErrors == {"ConnectionError", "ValueError"}

\* queries a caller passes: "", " " and "a b"
Queries == {<<>>, <<" ">>, <<"a", " ", "b">>}

\* ------------------------------------------------------------------ state
Calls == {1, 2}

VARIABLES
    self,            \* the HybridRetriever: top_k, graph_depth, the weights
    heap,            \* the RetrievedChunk objects, by reference
    pc,              \* where each call stands
    args,            \* the arguments of each call
    k,               \* the effective top-k of each call
    vector_results,  \* per call, references
    graph_results,   \* per call, references
    result,          \* per call, the list returned
    invoked,         \* per call, the provider invocations in order
    error,           \* per call, the exception that ended it ("none")
    threshold,       \* per call, the similarity_threshold the filter ran with
    overlap,         \* a call of _compute_overlap: its two texts, its value
    graph_related,   \* per call, the records find_related_chunks returned
    stream           \* a run of RAGService.query_stream: position, events

vars == <<self, heap, pc, args, k, vector_results, graph_results, result,
          invoked, error, threshold, overlap, graph_related, stream>>

\* query_stream has not been called
NoStream == [pc |-> "idle", events |-> <<>>, llm_calls |-> 0]

\* no call of _compute_overlap on texts given by value
NoOverlap == [pc |-> "none", text1 |-> <<>>, text2 |-> <<>>, ratio |-> <<>>]

\* HybridRetriever.__init__ as get_retriever calls it
NewRetriever ==
    [top_k |-> TOP_K_RETRIEVAL, graph_depth |-> GRAPH_TRAVERSAL_DEPTH,
     vector_weight |-> DefaultVectorWeight, graph_weight |-> DefaultGraphWeight]

\* the weights handed to __init__: the defaults, or both zero
Weights == {<<DefaultVectorWeight, DefaultGraphWeight>>, <<0, 0>>}

\* the arguments of a call that has not been made
NoArgs == [query |-> <<>>, top_k |-> <<>>, enable_graph |-> TRUE]

\* an Optional value: None, or Some(n)
None == <<>>
Some(n) == <<n>>

\* dict.get(key, default) on a record of a provider; dict.get(key) has
\* default None
DictGet(item, key, default) == IF key \in DOMAIN item THEN item[key] ELSE default

\* -------------------------------------------------- building the objects
\* the loop of _vector_search over the hits: one RetrievedChunk per hit,
\* graph_score 0.0 and final_score the hit's score
ChunkOfHit(hit) ==
    RetrievedChunk(hit.chunk_id, hit.document_id, hit.text, hit.hierarchy_path,
                   hit.score, 0, 10 * hit.score, hit.metadata)

\* the loop of _graph_traverse over the records: vector_score 0.0,
\* graph_score and final_score item.get("path_score", 0.0); the metadata
\* field of a record stands for the keys the metadata dict is built from
ChunkOfRecord(item) ==
    RetrievedChunk(DictGet(item, "chunk_id", None), DictGet(item, "document_id", None),
                   DictGet(item, "text", None), DictGet(item, "hierarchy_path", ""),
                   0, DictGet(item, "path_score", 0), 10 * DictGet(item, "path_score", 0),
                   DictGet(item, "metadata", None))

\* variant: the list is kept in storage shared by every call, from its start
RangeFromStart(lo, n) == [i \in 1..n |-> i]
\* references lo+1 .. lo+n, the objects appended to the heap by one loop
Range(lo, n) == [i \in 1..n |-> lo + i]

\* lists of at most n elements of S
ListsUpTo(S, n) == UNION {[1..m -> S] : m \in 0..n}

Min(a, b) == IF a < b THEN a ELSE b
Max(a, b) == IF a > b THEN a ELSE b

\* ---------------------------------------------- fusion as a pure function
\* _merge_and_rerank called on lists of objects, as the unit tests call it
InitFuse ==
    /\ \E w \in Weights :
          self = [NewRetriever EXCEPT !.vector_weight = w[1], !.graph_weight = w[2]]
    /\ \E nv \in 0..MaxChunks : \E ng \in 0..(MaxChunks - nv) :
       \E hits \in [1..nv -> VectorHits] : \E related \in [1..ng -> GraphRecords] :
          /\ heap = [i \in 1..nv |-> ChunkOfHit(hits[i])]
                    \o [i \in 1..ng |-> ChunkOfRecord(related[i])]
          /\ vector_results = [c \in Calls |-> IF c = 1 THEN Range(0, nv) ELSE <<>>]
          /\ graph_results = [c \in Calls |-> IF c = 1 THEN Range(nv, ng) ELSE <<>>]
          /\ graph_related = [c \in Calls |-> IF c = 1 THEN related ELSE <<>>]
    /\ pc = [c \in Calls |-> IF c = 1 THEN "merge" ELSE "idle"]
    /\ args = [c \in Calls |-> NoArgs]
    /\ \E top_k \in -1..MaxTopK : k = [c \in Calls |-> IF c = 1 THEN top_k ELSE 0]
    /\ result = [c \in Calls |-> <<>>]
    /\ invoked = [c \in Calls |-> <<>>]
    /\ error = [c \in Calls |-> "none"]
    /\ threshold = [c \in Calls |-> DefaultSimilarityThreshold]
    /\ overlap = NoOverlap
    /\ stream = NoStream

\* step 3 of retrieve: final_results = self._merge_and_rerank(...); return
MergeAndRerank(c) ==
    /\ pc[c] = "merge"
    /\ LET out == _merge_and_rerank(heap, vector_results[c], graph_results[c],
                                    k[c], self.vector_weight, self.graph_weight)
       IN  /\ heap' = out.heap
           /\ result' = [result EXCEPT ![c] = out.result]
    /\ pc' = [pc EXCEPT ![c] = "done"]
    /\ UNCHANGED <<self, args, k, vector_results, graph_results, invoked, error,
                   threshold,
                   overlap, graph_related, stream>>

\* _merge_and_rerank called a second time with the same two lists, whose
\* objects carry the scores the first call wrote
MergeAndRerankAgain(c) ==
    /\ pc[c] = "done"
    /\ LET out == _merge_and_rerank(heap, vector_results[c], graph_results[c],
                                    k[c], self.vector_weight, self.graph_weight)
       IN  /\ heap' = out.heap
           /\ result' = [result EXCEPT ![c] = out.result]
    /\ pc' = [pc EXCEPT ![c] = "again"]
    /\ UNCHANGED <<self, args, k, vector_results, graph_results, invoked, error,
                   threshold,
                   overlap, graph_related, stream>>

\* thresholds a caller of _enforce_diversity passes, hundredths
Thresholds == {0, 50, 95, 100}

\* _enforce_diversity called on a list of objects, as the unit tests call it:
\* chunks is the caller's list, here the two lists one after the other
EnforceDiversity(c) ==
    /\ pc[c] = "merge"
    /\ \E similarity_threshold \in Thresholds :
          /\ threshold' = [threshold EXCEPT ![c] = similarity_threshold]
          /\ result' = [result EXCEPT ![c] =
                          _enforce_diversity(heap, vector_results[c] \o graph_results[c],
                                             k[c], similarity_threshold)]
    /\ pc' = [pc EXCEPT ![c] = "filtered"]
    /\ UNCHANGED <<self, heap, args, k, vector_results, graph_results, invoked, error,
                   overlap, graph_related, stream>>

NextFuse ==
    \/ MergeAndRerank(1)
    \/ MergeAndRerankAgain(1)
    \/ EnforceDiversity(1)

SpecFuse == InitFuse /\ [][NextFuse]_vars

\* ------------------------------------------------------------- retrieve
Init ==
    /\ self = NewRetriever
    /\ heap = <<>>
    /\ pc = [c \in Calls |-> "idle"]
    /\ args = [c \in Calls |-> NoArgs]
    /\ k = [c \in Calls |-> 0]
    /\ vector_results = [c \in Calls |-> <<>>]
    /\ graph_results = [c \in Calls |-> <<>>]
    /\ result = [c \in Calls |-> <<>>]
    /\ invoked = [c \in Calls |-> <<>>]
    /\ error = [c \in Calls |-> "none"]
    /\ threshold = [c \in Calls |-> DefaultSimilarityThreshold]
    /\ overlap = NoOverlap
    /\ stream = NoStream
    /\ graph_related = [c \in Calls |-> <<>>]

\* "top_k or self.top_k": None and 0 are falsy
Truthy(top_k) == top_k # None /\ top_k[1] # 0
EffectiveK(top_k, default) == IF Truthy(top_k) THEN top_k[1] ELSE default

\* retrieve is entered: k = top_k or self.top_k, then _vector_search is
\* called with limit k * 2
RetrieveWith(c, queries, top_ks, graph_flags) ==
    /\ pc[c] = "idle"
    /\ \E query \in queries, top_k \in top_ks, enable_graph \in graph_flags :
          /\ args' = [args EXCEPT ![c] = [query |-> query, top_k |-> top_k,
                                          enable_graph |-> enable_graph]]
          /\ k' = [k EXCEPT ![c] = EffectiveK(top_k, self.top_k)]
    /\ pc' = [pc EXCEPT ![c] = "encode"]
    /\ UNCHANGED <<self, heap, vector_results, graph_results, result, invoked, error,
                   threshold,
                   overlap, graph_related, stream>>

\* the top_k arguments a caller passes: None, or an int
TopKArgs == {None} \cup {Some(n) : n \in -1..MaxTopK}

Retrieve(c) == RetrieveWith(c, Queries, TopKArgs, BOOLEAN)

\* _vector_search: self.embedding_service.encode_query(query) returns
EncodeQuery(c) ==
    /\ pc[c] = "encode"
    /\ invoked' = [invoked EXCEPT ![c] =
                     Append(@, [op |-> "encode_query", query |-> args[c].query])]
    /\ pc' = [pc EXCEPT ![c] = "search"]
    /\ UNCHANGED <<self, heap, args, k, vector_results, graph_results, result, error,
                   threshold,
                   overlap, graph_related, stream>>

\* _vector_search: encode_query raises; both except clauses re-raise it
EncodeQueryRaises(c) ==
    /\ pc[c] = "encode"
    /\ invoked' = [invoked EXCEPT ![c] =
                     Append(@, [op |-> "encode_query", query |-> args[c].query])]
    /\ \E e \in ProviderErrors : error' = [error EXCEPT ![c] = e]
    /\ pc' = [pc EXCEPT ![c] = "raised"]
    /\ UNCHANGED <<self, heap, args, k, vector_results, graph_results, result,
                   threshold,
                   overlap, graph_related, stream>>

\* variant: the limit is k itself
SearchLimitNoOversampling(c) == k[c]
\* the limit retrieve passes to _vector_search, and it to the repository
SearchLimit(c) == k[c] * OversampleFactor

\* variants: no early return on an empty list; enable_graph not consulted
AfterVectorSearchNoShortCircuit(enable_graph, vector_hits) ==
    IF enable_graph THEN "graph" ELSE "merge"
AfterVectorSearchAlwaysGraph(enable_graph, vector_hits) ==
    IF vector_hits = <<>> THEN "done" ELSE "graph"
\* where retrieve goes once _vector_search has returned: "if not
\* vector_results: return []", then "if enable_graph and vector_results"
AfterVectorSearch(enable_graph, vector_hits) ==
    IF vector_hits = <<>> THEN "done"
    ELSE IF enable_graph /\ vector_hits # <<>> THEN "graph"
    ELSE "merge"

\* _vector_search: self.vector_repo.search(limit=limit) returns at most limit
\* hits, the chunks are built; back in retrieve, an empty list returns []
\* at once, otherwise graph traversal or the merge comes next.  The
\* repository is the object handed to __init__: what it returns is any list
\* of hits within the limit.  (VectorRepository.search of this repository
\* names its filter argument filter_conditions, not filters, and returns
\* dicts without .payload: with it the call ends as in VectorSearchRaises.)
VectorSearchIn(c, index) ==
    /\ pc[c] = "search"
    /\ invoked' = [invoked EXCEPT ![c] =
                     Append(@, [op |-> "search", limit |-> SearchLimit(c)])]
    /\ \E hits \in ListsUpTo(index,
                             Min(Max(SearchLimit(c), 0), MaxChunks - Len(heap))) :
          /\ heap' = heap \o [i \in 1..Len(hits) |-> ChunkOfHit(hits[i])]
          /\ vector_results' = [vector_results EXCEPT ![c] =
                                   Range(Len(heap), Len(hits))]
          /\ result' = IF hits = <<>> THEN [result EXCEPT ![c] = <<>>] ELSE result
          /\ pc' = [pc EXCEPT ![c] = AfterVectorSearch(args[c].enable_graph, hits)]
    /\ UNCHANGED <<self, args, k, graph_results, error, threshold,
                   overlap, graph_related, stream>>

VectorSearch(c) == VectorSearchIn(c, VectorHits)

\* variant: a failed search is logged and tried again
VectorSearchRetries(c) ==
    /\ pc[c] = "search"
    /\ invoked' = [invoked EXCEPT ![c] =
                     Append(@, [op |-> "search", limit |-> SearchLimit(c)])]
    /\ \E e \in ProviderErrors : error' = [error EXCEPT ![c] = e]
    /\ pc' = [pc EXCEPT ![c] = "search"]
    /\ UNCHANGED <<self, heap, args, k, vector_results, graph_results, result,
                   threshold, overlap, graph_related, stream>>
\* _vector_search: vector_repo.search raises; both except clauses re-raise
VectorSearchRaises(c) ==
    /\ pc[c] = "search"
    /\ invoked' = [invoked EXCEPT ![c] =
                     Append(@, [op |-> "search", limit |-> SearchLimit(c)])]
    /\ \E e \in ProviderErrors : error' = [error EXCEPT ![c] = e]
    /\ pc' = [pc EXCEPT ![c] = "raised"]
    /\ UNCHANGED <<self, heap, args, k, vector_results, graph_results, result,
                   threshold,
                   overlap, graph_related, stream>>

\* seed_ids = [chunk.chunk_id for chunk in seed_chunks]
SeedIds(h, seed_chunks) == [i \in 1..Len(seed_chunks) |-> h[seed_chunks[i]].chunk_id]

\* variant: only the first k vector results seed the traversal, and k caps
\* the number of results
GraphCallTopK(c) ==
    [op |-> "find_related_chunks",
     chunk_ids |-> SeedIds(heap, SubSeq(vector_results[c], 1,
                                        Min(Max(k[c], 0), Len(vector_results[c])))),
     max_depth |-> self.graph_depth, max_results |-> k[c]]
\* the call _graph_traverse makes on the graph repository
GraphCall(c) ==
    [op |-> "find_related_chunks", chunk_ids |-> SeedIds(heap, vector_results[c]),
     max_depth |-> self.graph_depth, max_results |-> GraphMaxResults]

\* _graph_traverse: find_related_chunks returns, the chunks are built
GraphTraverseIn(c, graph) ==
    /\ pc[c] = "graph"
    /\ invoked' = [invoked EXCEPT ![c] = Append(@, GraphCall(c))]
    /\ \E related \in ListsUpTo(graph,
                                Min(GraphMaxResults, MaxChunks - Len(heap))) :
          /\ graph_related' = [graph_related EXCEPT ![c] = related]
          /\ heap' = heap \o [i \in 1..Len(related) |-> ChunkOfRecord(related[i])]
          /\ graph_results' = [graph_results EXCEPT ![c] =
                                  Range(Len(heap), Len(related))]
    /\ pc' = [pc EXCEPT ![c] = "merge"]
    /\ UNCHANGED <<self, args, k, vector_results, result, error, threshold,
                   overlap, stream>>

GraphTraverse(c) == GraphTraverseIn(c, GraphRecords)

\* variant: the graph failure is caught and logged, and retrieve goes on to
\* merge the vector results with an empty graph list
GraphTraverseDegrades(c) ==
    /\ pc[c] = "graph"
    /\ invoked' = [invoked EXCEPT ![c] = Append(@, GraphCall(c))]
    /\ \E e \in ProviderErrors : error' = [error EXCEPT ![c] = e]
    /\ graph_results' = [graph_results EXCEPT ![c] = <<>>]
    /\ pc' = [pc EXCEPT ![c] = "merge"]
    /\ UNCHANGED <<self, heap, args, k, vector_results, result, threshold,
                   overlap, graph_related, stream>>
\* _graph_traverse: find_related_chunks raises; both except clauses re-raise
GraphTraverseRaises(c) ==
    /\ pc[c] = "graph"
    /\ invoked' = [invoked EXCEPT ![c] = Append(@, GraphCall(c))]
    /\ \E e \in ProviderErrors : error' = [error EXCEPT ![c] = e]
    /\ pc' = [pc EXCEPT ![c] = "raised"]
    /\ UNCHANGED <<self, heap, args, k, vector_results, graph_results, result,
                   threshold,
                   overlap, graph_related, stream>>

Next ==
    \/ Retrieve(1)
    \/ EncodeQuery(1)
    \/ EncodeQueryRaises(1)
    \/ VectorSearch(1)
    \/ VectorSearchRaises(1)
    \/ GraphTraverse(1)
    \/ GraphTraverseRaises(1)
    \/ MergeAndRerank(1)

Spec == Init /\ [][Next]_vars

\* ------------------------------------- fusion of objects a caller built
\* RetrievedChunk objects as a caller of _merge_and_rerank may construct
\* them: __init__ takes the three scores as arguments, any of them set
CarriedChunks ==
    { RetrievedChunk(id, 1, IF id = "c1" THEN "T20" ELSE "TU", "", vs, gs, 0, "m1") :
        id \in {"c1", "c3"}, vs \in {0, 7}, gs \in {0, 8} }

\* _merge_and_rerank is about to be called on two lists of such objects
InitCarried ==
    /\ self = NewRetriever
    /\ \E nv \in 0..MaxChunks : \E ng \in 0..(MaxChunks - nv) :
       \E vs \in [1..nv -> CarriedChunks] : \E gs \in [1..ng -> CarriedChunks] :
          /\ heap = vs \o gs
          /\ vector_results = [c \in Calls |-> IF c = 1 THEN Range(0, nv) ELSE <<>>]
          /\ graph_results = [c \in Calls |-> IF c = 1 THEN Range(nv, ng) ELSE <<>>]
    /\ pc = [c \in Calls |-> IF c = 1 THEN "merge" ELSE "idle"]
    /\ args = [c \in Calls |-> NoArgs]
    /\ k = [c \in Calls |-> IF c = 1 THEN MaxTopK ELSE 0]
    /\ result = [c \in Calls |-> <<>>]
    /\ invoked = [c \in Calls |-> <<>>]
    /\ error = [c \in Calls |-> "none"]
    /\ threshold = [c \in Calls |-> DefaultSimilarityThreshold]
    /\ overlap = NoOverlap
    /\ stream = NoStream
    /\ graph_related = [c \in Calls |-> <<>>]

NextCarried == MergeAndRerank(1)

SpecCarried == InitCarried /\ [][NextCarried]_vars

\* ------------------------------------------------ two calls of retrieve
\* Two calls on the one retriever get_retriever hands out, their steps in
\* any order.  Both search the same small index and graph, so that the same
\* chunk ids come back to both.
ConcQueries == {<<"a", " ", "b">>}
ConcTopKArgs == {Some(1), Some(2)}
ConcVectorHits == {hit \in VectorHits : hit.metadata \in {"m1", "m2"}}
ConcGraphRecords == {item \in GraphRecords : item.metadata \in {"r1", "r2"}}

NextConc ==
    \E c \in Calls :
        \/ RetrieveWith(c, ConcQueries, ConcTopKArgs, BOOLEAN)
        \/ EncodeQuery(c)
        \/ EncodeQueryRaises(c)
        \/ VectorSearchIn(c, ConcVectorHits)
        \/ VectorSearchRaises(c)
        \/ GraphTraverseIn(c, ConcGraphRecords)
        \/ GraphTraverseRaises(c)
        \/ MergeAndRerank(c)

SpecConc == Init /\ [][NextConc]_vars

\* ------------------------------- retrieve over the GraphRepository class
\* The Cypher query of _find_related_chunks_tx: 1.0 / (1.0 + distance) as
\* path_score, in tenths rounded down (0.5, 0.3, 0.2 for distances 1, 2, 3)
PathScore(distance) == 10 \div (1 + distance)

\* one dict _find_related_chunks_tx appends for a chunk found at a distance:
\* the score is under the key relevance_score and there is no document_id
RepoRecord(id, distance) ==
    [chunk_id |-> id, text |-> IF id = "c2" THEN "T19" ELSE "TU",
     hierarchy_level |-> 2, hierarchy_path |-> "L1>A2",
     relevance_score |-> PathScore(distance), metadata |-> "p1"]

\* what GraphRepository.find_related_chunks may return: a chunk comes once
\* per distance it is found at
RepoGraphRecords == {RepoRecord(id, distance) : id \in {"c2", "c3"}, distance \in 1..2}

NextRepo ==
    \/ RetrieveWith(1, ConcQueries, TopKArgs, BOOLEAN)
    \/ EncodeQuery(1)
    \/ EncodeQueryRaises(1)
    \/ VectorSearchIn(1, ConcVectorHits)
    \/ VectorSearchRaises(1)
    \/ GraphTraverseIn(1, RepoGraphRecords)
    \/ GraphTraverseRaises(1)
    \/ MergeAndRerank(1)

SpecRepo == Init /\ [][NextRepo]_vars

\* ------------------------------------------------ RAGService.query_stream
\* most text chunks the language model streams in one run
MaxTextEvents == 2

\* yield {"type": type, ...}: the event goes to the consumer
Yield(type) == [stream EXCEPT !.events = Append(@, type)]

\* query_stream is called and awaits self.retriever.retrieve(query=query,
\* filters=filters): top_k is None and enable_graph its default True
QueryStream ==
    /\ stream.pc = "idle"
    /\ stream' = [stream EXCEPT !.pc = "retrieving"]
    /\ UNCHANGED <<self, heap, pc, args, k, vector_results, graph_results, result,
                   invoked, error, threshold, overlap, graph_related>>

\* a step of that retrieve call
RetrieveStep ==
    /\ stream.pc = "retrieving"
    /\ \/ RetrieveWith(1, ConcQueries, {None}, {TRUE})
       \/ EncodeQuery(1)
       \/ EncodeQueryRaises(1)
       \/ VectorSearchIn(1, ConcVectorHits)
       \/ VectorSearchRaises(1)
       \/ GraphTraverseIn(1, ConcGraphRecords)
       \/ GraphTraverseRaises(1)
       \/ MergeAndRerank(1)

\* retrieve returned: the metadata event is yielded first; with no chunk
\* the fixed answer comes next, otherwise the prompt is built
YieldMetadata ==
    /\ stream.pc = "retrieving"
    /\ pc[1] = "done"
    /\ stream' = [Yield("metadata") EXCEPT
                     !.pc = IF result[1] = <<>> THEN "no_chunks" ELSE "prompt"]
    /\ UNCHANGED <<self, heap, pc, args, k, vector_results, graph_results, result,
                   invoked, error, threshold, overlap, graph_related>>

\* variant: the exception of retrieve is logged and the run goes on as if
\* retrieve had returned chunks
RetrieveRaisedGoesOn ==
    /\ stream.pc = "retrieving"
    /\ pc[1] = "raised"
    /\ stream' = [Yield("error") EXCEPT !.pc = "prompt"]
    /\ UNCHANGED <<self, heap, pc, args, k, vector_results, graph_results, result,
                   invoked, error, threshold, overlap, graph_related>>
\* retrieve raised: "except Exception" yields one error event and the
\* generator ends
RetrieveRaised ==
    /\ stream.pc = "retrieving"
    /\ pc[1] = "raised"
    /\ stream' = [Yield("error") EXCEPT !.pc = "ended"]
    /\ UNCHANGED <<self, heap, pc, args, k, vector_results, graph_results, result,
                   invoked, error, threshold, overlap, graph_related>>

\* "if not retrieved_chunks": the text event with the fixed answer
YieldNotFound ==
    /\ stream.pc = "no_chunks"
    /\ stream' = [Yield("text") EXCEPT !.pc = "no_chunks_done"]
    /\ UNCHANGED <<self, heap, pc, args, k, vector_results, graph_results, result,
                   invoked, error, threshold, overlap, graph_related>>

\* then the done event, and return
YieldDoneNotFound ==
    /\ stream.pc = "no_chunks_done"
    /\ stream' = [Yield("done") EXCEPT !.pc = "ended"]
    /\ UNCHANGED <<self, heap, pc, args, k, vector_results, graph_results, result,
                   invoked, error, threshold, overlap, graph_related>>

\* the prompt is built and self.llm_service.generate_stream is called
GenerateStream ==
    /\ stream.pc = "prompt"
    /\ stream' = [stream EXCEPT !.pc = "streaming", !.llm_calls = @ + 1]
    /\ UNCHANGED <<self, heap, pc, args, k, vector_results, graph_results, result,
                   invoked, error, threshold, overlap, graph_related>>

\* the language model streams a chunk: one text event
YieldText ==
    /\ stream.pc = "streaming"
    /\ Len(SelectSeq(stream.events, LAMBDA e : e = "text")) < MaxTextEvents
    /\ stream' = Yield("text")
    /\ UNCHANGED <<self, heap, pc, args, k, vector_results, graph_results, result,
                   invoked, error, threshold, overlap, graph_related>>

\* the stream of the language model ends: the done event
YieldDone ==
    /\ stream.pc = "streaming"
    /\ stream' = [Yield("done") EXCEPT !.pc = "ended"]
    /\ UNCHANGED <<self, heap, pc, args, k, vector_results, graph_results, result,
                   invoked, error, threshold, overlap, graph_related>>

\* the language model raises, before or between chunks: one error event
GenerateRaises ==
    /\ stream.pc = "streaming"
    /\ stream' = [Yield("error") EXCEPT !.pc = "ended"]
    /\ UNCHANGED <<self, heap, pc, args, k, vector_results, graph_results, result,
                   invoked, error, threshold, overlap, graph_related>>

NextStream ==
    \/ QueryStream
    \/ RetrieveStep
    \/ YieldMetadata
    \/ RetrieveRaised
    \/ YieldNotFound
    \/ YieldDoneNotFound
    \/ GenerateStream
    \/ YieldText
    \/ YieldDone
    \/ GenerateRaises

SpecStream == Init /\ [][NextStream]_vars

\* ------------------------------------------- overlap as a pure function
\* longest text handed to _compute_overlap by value
MaxTextLen == 3

\* the characters of those texts: a letter in both cases, another letter,
\* the space
TextChars == {"a", "A", "b", Space}

\* every text of at most MaxTextLen characters
Texts == ListsUpTo(TextChars, MaxTextLen)

\* _compute_overlap is about to be called with two texts
InitOverlap ==
    /\ self = NewRetriever
    /\ heap = <<>>
    /\ pc = [c \in Calls |-> "idle"]
    /\ args = [c \in Calls |-> NoArgs]
    /\ k = [c \in Calls |-> 0]
    /\ vector_results = [c \in Calls |-> <<>>]
    /\ graph_results = [c \in Calls |-> <<>>]
    /\ result = [c \in Calls |-> <<>>]
    /\ invoked = [c \in Calls |-> <<>>]
    /\ error = [c \in Calls |-> "none"]
    /\ threshold = [c \in Calls |-> DefaultSimilarityThreshold]
    /\ graph_related = [c \in Calls |-> <<>>]
    /\ stream = NoStream
    /\ \E text1, text2 \in Texts :
          overlap = [pc |-> "call", text1 |-> text1, text2 |-> text2,
                     ratio |-> <<>>]

\* _compute_overlap(text1, text2): both texts lowered and split, the word
\* sets built, the ratio returned
ComputeOverlap ==
    /\ overlap.pc = "call"
    /\ overlap' = [overlap EXCEPT
                      !.pc = "returned",
                      !.ratio = OverlapRatio(WordSet(overlap.text1),
                                             WordSet(overlap.text2))]
    /\ UNCHANGED <<self, heap, pc, args, k, vector_results, graph_results, result,
                   invoked, error, threshold, graph_related, stream>>

NextOverlap == ComputeOverlap

SpecOverlap == InitOverlap /\ [][NextOverlap]_vars

\* ============================================================== properties
\* a call whose result list stands: retrieve returned, or the function
\* called directly returned
Returned(c) == pc[c] \in {"done", "filtered"}
Fused(c) == pc[c] = "done"

ResultLen(c) == Len(result[c])
ResultChunk(c, i) == heap[result[c][i]]
InputRefs(c) == ToSet(vector_results[c]) \cup ToSet(graph_results[c])
IdsOf(refs) == {heap[r].chunk_id : r \in refs}

\* C1 (dedup invariant): whatever ids repeat across or inside the two input
\* lists, the list _merge_and_rerank returns holds no two candidates with the
\* same chunk id.
C1_Dedup ==
    \A c \in Calls : Fused(c) =>
        \A i, j \in 1..ResultLen(c) :
            i # j => ResultChunk(c, i).chunk_id # ResultChunk(c, j).chunk_id

\* an id repeats inside the vector list and again in the graph list, and the
\* fused list still has two candidates
C1_Witness ==
    /\ Fused(1)
    /\ ResultLen(1) >= 2
    /\ \E i, j \in 1..Len(vector_results[1]) : \E g \in ToSet(graph_results[1]) :
          /\ i # j
          /\ heap[vector_results[1][i]].chunk_id = heap[vector_results[1][j]].chunk_id
          /\ heap[g].chunk_id = heap[vector_results[1][i]].chunk_id
          /\ heap[g].chunk_id \in IdsOf(ToSet(result[1]))

\* C2 (bound invariant): for top_k >= 1 the list _merge_and_rerank returns,
\* which is the output of _enforce_diversity, has at most top_k elements.
C2_Bound ==
    \A c \in Calls : (Fused(c) /\ k[c] >= 1) => ResultLen(c) <= k[c]

\* the bound, not the duplicate filter, cut the list: a candidate with a new
\* id whose text duplicates no returned text was left out at top_k = 2
C2_Witness ==
    /\ Fused(1)
    /\ k[1] = 2
    /\ ResultLen(1) = 2
    /\ \E r \in InputRefs(1) :
          /\ heap[r].chunk_id \notin IdsOf(ToSet(result[1]))
          /\ \A x \in ToSet(result[1]) :
                /\ ~StrEq(heap[r].text, heap[x].text)
                /\ RatioLE(_compute_overlap(heap[r].text, heap[x].text),
                           DefaultSimilarityThreshold)

\* C3 (score monotonicity): in the list _merge_and_rerank returns the final
\* scores never increase from one position to the next.
C3_ScoreMonotone ==
    \A c \in Calls : Fused(c) =>
        \A i \in 1..(ResultLen(c) - 1) :
            ResultChunk(c, i).final_score >= ResultChunk(c, i + 1).final_score

\* sorting moved a later input in front of an earlier one, the scores fall
\* strictly, and the filter dropped a candidate ranked between two kept ones
C3_Witness ==
    /\ Fused(1)
    /\ ResultLen(1) >= 2
    /\ result[1][1] > result[1][2]
    /\ ResultChunk(1, 1).final_score > ResultChunk(1, 2).final_score
    /\ \E r \in InputRefs(1) :
          /\ heap[r].chunk_id \notin IdsOf(ToSet(result[1]))
          /\ heap[r].final_score < ResultChunk(1, 1).final_score
          /\ heap[r].final_score > ResultChunk(1, ResultLen(1)).final_score

\* C4 (diversity invariant): any two distinct candidates of the list
\* _merge_and_rerank returns have a word-set overlap ratio of at most the
\* default threshold 0.95, so a candidate was compared with every candidate
\* selected before it and not only with the latest.
C4_Diversity ==
    \A c \in Calls : Fused(c) =>
        \A i, j \in 1..ResultLen(c) :
            i # j => RatioLE(_compute_overlap(ResultChunk(c, i).text,
                                              ResultChunk(c, j).text),
                             DefaultSimilarityThreshold)

\* two candidates were selected and room was left; a third candidate with a
\* new id and a lower score was rejected for its overlap with the first
\* selected one, while its overlap with the latest selected one is allowed
C4_Witness ==
    /\ Fused(1)
    /\ k[1] = 3
    /\ ResultLen(1) = 2
    /\ \E r \in InputRefs(1) :
          /\ heap[r].chunk_id \notin IdsOf(ToSet(result[1]))
          /\ heap[r].final_score <= ResultChunk(1, 2).final_score
          /\ ~StrEq(heap[r].text, ResultChunk(1, 1).text)
          /\ RatioGT(_compute_overlap(heap[r].text, ResultChunk(1, 1).text),
                     DefaultSimilarityThreshold)
          /\ RatioLE(_compute_overlap(heap[r].text, ResultChunk(1, 2).text),
                     DefaultSimilarityThreshold)

\* positions of the candidates with a given id in a list of references
PositionsOf(h, list, id) == {i \in 1..Len(list) : h[list[i]].chunk_id = id}
Largest(S) == CHOOSE x \in S : \A y \in S : y <= x
Smallest(S) == CHOOSE x \in S : \A y \in S : x <= y

\* the text of chunk r repeats, exactly or above the threshold, the text of
\* a candidate of the list refs
RepeatsOneOf(h, r, refs, similarity_threshold) ==
    \E x \in ToSet(refs) :
        \/ StrEq(h[r].text, h[x].text)
        \/ RatioGT(_compute_overlap(h[r].text, h[x].text), similarity_threshold)

\* C5 (merge correctness): in a call of _merge_and_rerank, an id found in
\* both lists has one merged candidate, the vector list's (last) object of
\* that id, with its vector_score as before the call and the graph_score of
\* the graph list's (last) object of that id; an id found only in the graph
\* list is inserted as a candidate, the graph list's first object of that
\* id, which is returned unless top_k or the duplicate filter cut it.
C5_MergeCorrect ==
    [][\A c \in Calls : (pc[c] = "merge" /\ pc'[c] = "done") =>
        \A id \in ChunkIds :
            LET vpos == PositionsOf(heap, vector_results[c], id)
                gpos == PositionsOf(heap, graph_results[c], id)
            IN  /\ (vpos # {} /\ gpos # {}) =>
                    LET v == vector_results[c][Largest(vpos)]
                        g == graph_results[c][Largest(gpos)]
                    IN  /\ heap'[v].vector_score = heap[v].vector_score
                        /\ heap'[v].graph_score = heap[g].graph_score
                        /\ \A x \in ToSet(result'[c]) :
                              heap'[x].chunk_id = id => x = v
                /\ (vpos = {} /\ gpos # {}) =>
                    LET g == graph_results[c][Smallest(gpos)]
                    IN  /\ \A x \in ToSet(result'[c]) :
                              heap'[x].chunk_id = id => x = g
                        /\ \/ g \in ToSet(result'[c])
                           \/ Len(result'[c]) >= k[c]
                           \/ RepeatsOneOf(heap', g, result'[c],
                                           DefaultSimilarityThreshold)
      ]_vars

\* the fused list holds a vector object carrying its own vector score 0.7
\* and the graph score 0.8 of the graph object with its id, and a graph
\* object whose id the vector list does not have
C5_Witness ==
    /\ Fused(1)
    /\ \E v \in ToSet(vector_results[1]) \cap ToSet(result[1]) :
       \E g \in ToSet(graph_results[1]) :
          /\ heap[g].chunk_id = heap[v].chunk_id
          /\ heap[v].vector_score = 7
          /\ heap[v].graph_score = 8
          /\ heap[g].graph_score = 8
    /\ \E g \in ToSet(graph_results[1]) \cap ToSet(result[1]) :
          heap[g].chunk_id \notin IdsOf(ToSet(vector_results[1]))

\* C6 (weighted fusion): every candidate _merge_and_rerank returns has
\* final_score = vector_weight * vector_score + graph_weight * graph_score
\* of the scores it carries after merging; weights 0.6/0.4 with scores 0.7
\* and 0.8 give 0.74.
C6_WeightedFusion ==
    \A c \in Calls : Fused(c) =>
        \A i \in 1..ResultLen(c) :
            LET x == ResultChunk(c, i)
            IN  /\ x.final_score = self.vector_weight * x.vector_score
                                   + self.graph_weight * x.graph_score
                /\ (self.vector_weight = 6 /\ self.graph_weight = 4
                    /\ x.vector_score = 7 /\ x.graph_score = 8)
                   => x.final_score = 74

\* a returned candidate merged from a 0.7 vector hit and a 0.8 graph record
\* has 0.74, not the 0.70 it was built with
C6_Witness ==
    /\ Fused(1)
    /\ \E i \in 1..ResultLen(1) :
          /\ ResultChunk(1, i).vector_score = 7
          /\ ResultChunk(1, i).graph_score = 8
          /\ ResultChunk(1, i).final_score = 74
          /\ result[1][i] \in ToSet(vector_results[1])

\* the list handed to _enforce_diversity by the direct call
Chunks(c) == vector_results[c] \o graph_results[c]

\* C7 (exact-duplicate suppression): for every top_k and every threshold the
\* list _enforce_diversity returns holds no two candidates with the same
\* text; a returned candidate is the first of the list with its text; when
\* all candidates have the same text exactly one is returned.
C7_ExactDuplicates ==
    \A c \in Calls : Returned(c) =>
        /\ \A i, j \in 1..ResultLen(c) :
              i # j => ~StrEq(ResultChunk(c, i).text, ResultChunk(c, j).text)
        /\ pc[c] = "filtered" =>
              \A q \in 1..Len(Chunks(c)) : \A p \in 1..(q - 1) :
                  Chunks(c)[q] \in ToSet(result[c])
                      => ~StrEq(heap[Chunks(c)[p]].text, heap[Chunks(c)[q]].text)
        /\ (InputRefs(c) # {}
            /\ \A r1, r2 \in InputRefs(c) : StrEq(heap[r1].text, heap[r2].text))
           => ResultLen(c) = 1

\* with the threshold at 1.0 and room for three, the second of two
\* candidates with the same text and different ids was dropped, and a
\* candidate between them was kept
C7_Witness ==
    /\ pc[1] = "filtered"
    /\ threshold[1] = 100
    /\ k[1] = 3
    /\ ResultLen(1) = 2
    /\ \E p, q \in 1..Len(Chunks(1)) :
          /\ p + 1 < q
          /\ StrEq(heap[Chunks(1)[p]].text, heap[Chunks(1)[q]].text)
          /\ heap[Chunks(1)[p]].chunk_id # heap[Chunks(1)[q]].chunk_id
          /\ Chunks(1)[p] \in ToSet(result[1])
          /\ Chunks(1)[p + 1] \in ToSet(result[1])
          /\ Chunks(1)[q] \notin ToSet(result[1])

\* ------------------------------------------------- properties of retrieve
Ops(c) == {invoked[c][i].op : i \in 1..Len(invoked[c])}
SearchCalls(c) == {invoked[c][i] : i \in {j \in 1..Len(invoked[c]) : invoked[c][j].op = "search"}}

\* the vector search of call c has returned, and returned no hit
SearchReturnedEmpty(c) ==
    /\ "search" \in Ops(c)
    /\ error[c] = "none"
    /\ vector_results[c] = <<>>

\* the vector search of call c has returned at least one hit
SearchReturnedSome(c) == vector_results[c] # <<>>

\* C8 (empty-vector short-circuit): once vector search has returned an empty
\* list, retrieve has returned the empty list and the graph repository is
\* never invoked in that call, whatever enable_graph is.
C8_EmptyShortCircuit ==
    \A c \in Calls : SearchReturnedEmpty(c) =>
        /\ pc[c] = "done"
        /\ result[c] = <<>>
        /\ "find_related_chunks" \notin Ops(c)

\* a call with a positive limit and enable_graph true got no hit
C8_Witness ==
    /\ SearchReturnedEmpty(1)
    /\ args[1].enable_graph
    /\ \E s \in SearchCalls(1) : s.limit > 0
    /\ pc[1] = "done"

\* C9 (graph gating): the graph repository is invoked only if enable_graph
\* is true and vector search returned a hit, and in that case it has been
\* invoked by the time the merge starts; with enable_graph false the list
\* returned is what _merge_and_rerank gives for the vector results and an
\* empty graph list.
C9_GraphGating ==
    \A c \in Calls :
        /\ "find_related_chunks" \in Ops(c)
              => (args[c].enable_graph /\ SearchReturnedSome(c))
        /\ (pc[c] \in {"merge", "done"} /\ args[c].enable_graph /\ SearchReturnedSome(c))
              => "find_related_chunks" \in Ops(c)
        /\ (pc[c] = "done" /\ ~args[c].enable_graph)
              => /\ graph_results[c] = <<>>
                 /\ result[c] = _merge_and_rerank(heap, vector_results[c], <<>>, k[c],
                                                  self.vector_weight,
                                                  self.graph_weight).result

\* a call with enable_graph false returned two of its vector hits and never
\* invoked the graph repository
C9_Witness ==
    /\ pc[1] = "done"
    /\ ~args[1].enable_graph
    /\ Len(vector_results[1]) >= 2
    /\ ResultLen(1) >= 2
    /\ "find_related_chunks" \notin Ops(1)

\* the effective top-k of a call: the top_k argument unless it is None or 0,
\* then the retriever's own top_k
EffectiveTopK(c) ==
    IF args[c].top_k = None THEN self.top_k
    ELSE IF args[c].top_k[1] = 0 THEN self.top_k
    ELSE args[c].top_k[1]

\* C10 (oversampling): every vector search of a call asks for exactly twice
\* the call's effective top-k, while the list retrieve returns has at most
\* that top-k (when it is at least 1).
C10_Oversampling ==
    \A c \in Calls :
        /\ \A s \in SearchCalls(c) : s.limit = 2 * EffectiveTopK(c)
        /\ (pc[c] = "done" /\ EffectiveTopK(c) >= 1) => ResultLen(c) <= EffectiveTopK(c)

\* with top_k = 2 the index was asked for 4 hits and gave 4, and 2 came back
C10_Witness ==
    /\ pc[1] = "done"
    /\ args[1].top_k = Some(2)
    /\ \E s \in SearchCalls(1) : s.limit = 4
    /\ Len(vector_results[1]) = 4
    /\ ResultLen(1) = 2

\* ------------------------------------------------------ failing providers
\* the call ended by an exception leaving retrieve
Raised(c) == pc[c] = "raised"

\* the provider call that was the last one the call made
LastInvoked(c) == invoked[c][Len(invoked[c])]

\* the graph repository of call c failed
GraphFailed(c) ==
    /\ error[c] # "none"
    /\ invoked[c] # <<>>
    /\ LastInvoked(c).op = "find_related_chunks"

\* C11 (provider failure propagation), as claimed: a call in which a
\* provider raised ends with a RetrievalFailure error, and returns no
\* candidate list.
C11_RetrievalFailure ==
    \A c \in Calls : Raised(c) =>
        /\ error[c] = "RetrievalFailure"
        /\ result[c] = <<>>

\* C12 (no graceful degradation): when vector search returned at least one
\* hit and the graph repository then fails, retrieve ends by that exception:
\* it returns no list, vector-only or other, and _merge_and_rerank has not
\* run, every object of the call being as _vector_search built it.
C12_NoDegradation ==
    \A c \in Calls : (GraphFailed(c) /\ SearchReturnedSome(c)) =>
        /\ Raised(c)
        /\ result[c] = <<>>
        /\ graph_results[c] = <<>>
        /\ \A r \in ToSet(vector_results[c]) :
              /\ heap[r].graph_score = 0
              /\ heap[r].final_score = 10 * heap[r].vector_score

\* vector search gave two hits, the graph repository was called with their
\* ids and raised, and the call ended by that exception
C12_Witness ==
    /\ GraphFailed(1)
    /\ Len(vector_results[1]) >= 2
    /\ LastInvoked(1).chunk_ids = SeedIds(heap, vector_results[1])
    /\ error[1] = "ConnectionError"
    /\ Raised(1)

\* ------------------------------------------------------ argument checking
\* a query with no character other than whitespace ("" included)
IsBlank(query) == \A i \in 1..Len(query) : query[i] \in Whitespace

\* the call has been entered
Entered(c) == pc[c] # "idle"

\* the call is past its entry: a provider was called or the call has ended
PastEntry(c) == pc[c] \notin {"idle", "encode"}

\* C13 (blank-query rejection), as claimed: a call of retrieve with an empty
\* or blank query invokes no provider, and ends with an InvalidInput error.
C13_BlankQueryRejected ==
    \A c \in Calls : (Entered(c) /\ IsBlank(args[c].query)) =>
        /\ invoked[c] = <<>>
        /\ PastEntry(c) => (Raised(c) /\ error[c] = "InvalidInput")

\* C14 (topK validation), as claimed: a call of retrieve with top_k < 1
\* never reaches vector search, invokes no provider, and ends with an
\* InvalidInput error.
C14_TopKRejected ==
    \A c \in Calls : (Entered(c) /\ args[c].top_k # None /\ args[c].top_k[1] < 1) =>
        /\ "search" \notin Ops(c)
        /\ invoked[c] = <<>>
        /\ PastEntry(c) => (Raised(c) /\ error[c] = "InvalidInput")

\* ------------------------------------------------- fusion called again
\* C15 (idempotence of fuse): a second call of _merge_and_rerank with the
\* same lists, made on the very objects whose graph_score and final_score
\* the first call wrote in place, returns the list the first call returned:
\* the same candidates in the same order, with the same ids and the same
\* final scores.
C15_Idempotent ==
    [][\A c \in Calls : (pc[c] = "done" /\ pc'[c] = "again") =>
          /\ result'[c] = result[c]
          /\ \A i \in 1..Len(result[c]) :
                /\ heap'[result'[c][i]].chunk_id = heap[result[c][i]].chunk_id
                /\ heap'[result'[c][i]].final_score = heap[result[c][i]].final_score
      ]_vars

\* the second call has returned two candidates or more; one is a vector
\* object that carries a graph score the first call wrote into it, one is a
\* graph object, and an id came twice in the graph list
C15_Witness ==
    /\ pc[1] = "again"
    /\ ResultLen(1) >= 2
    /\ \E v \in ToSet(vector_results[1]) \cap ToSet(result[1]) :
          /\ heap[v].graph_score > 0
          /\ heap[v].final_score # 10 * heap[v].vector_score
    /\ ToSet(graph_results[1]) \cap ToSet(result[1]) # {}
    /\ \E i, j \in 1..Len(graph_results[1]) :
          /\ i # j
          /\ heap[graph_results[1][i]].chunk_id = heap[graph_results[1][j]].chunk_id

\* ------------------------------------------------- completeness of fusion
\* the ids of the two lists of a call
InputIds(c) == IdsOf(InputRefs(c))

\* the merged candidate of an id: the vector list's last object of that id,
\* or else the graph list's first
MergedCandidate(c, id) ==
    LET vpos == PositionsOf(heap, vector_results[c], id)
        gpos == PositionsOf(heap, graph_results[c], id)
    IN  IF vpos # {} THEN vector_results[c][Largest(vpos)]
        ELSE graph_results[c][Smallest(gpos)]

\* no two merged candidates have the same text or an overlap above 0.95
NoDuplicateCandidates(c) ==
    \A id1, id2 \in InputIds(c) : id1 # id2 =>
        LET t1 == heap[MergedCandidate(c, id1)].text
            t2 == heap[MergedCandidate(c, id2)].text
        IN  /\ ~StrEq(t1, t2)
            /\ RatioLE(_compute_overlap(t1, t2), DefaultSimilarityThreshold)

\* C16 (completeness of fusion): when no two merged candidates are exact or
\* near duplicates and top_k is at least the number of distinct ids of the
\* two lists, _merge_and_rerank returns every distinct id exactly once, as
\* its merged candidate, in descending order of final score.
C16_Complete ==
    \A c \in Calls :
        (Fused(c) /\ NoDuplicateCandidates(c) /\ k[c] >= Cardinality(InputIds(c))) =>
            /\ ResultLen(c) = Cardinality(InputIds(c))
            /\ ToSet(result[c]) = {MergedCandidate(c, id) : id \in InputIds(c)}
            /\ \A i \in 1..(ResultLen(c) - 1) :
                  ResultChunk(c, i).final_score >= ResultChunk(c, i + 1).final_score

\* vector hits c1 at 0.9 and c2 at 0.7, graph records c2 at 0.8 and c3 at
\* 0.6, default weights, top_k = 3: the list is c2 (0.74), c1 (0.54),
\* c3 (0.24)
C16_Witness ==
    /\ Fused(1)
    /\ k[1] = 3
    /\ Len(vector_results[1]) = 2 /\ Len(graph_results[1]) = 2
    /\ heap[vector_results[1][1]].chunk_id = "c1"
    /\ heap[vector_results[1][1]].vector_score = 9
    /\ heap[vector_results[1][2]].chunk_id = "c2"
    /\ heap[vector_results[1][2]].vector_score = 7
    /\ heap[graph_results[1][1]].chunk_id = "c2"
    /\ heap[graph_results[1][2]].chunk_id = "c3"
    /\ heap[graph_results[1][2]].graph_score = 6
    /\ NoDuplicateCandidates(1)
    /\ [i \in 1..ResultLen(1) |-> ResultChunk(1, i).chunk_id] = <<"c2", "c1", "c3">>
    /\ [i \in 1..ResultLen(1) |-> ResultChunk(1, i).final_score] = <<74, 54, 24>>

\* ------------------------------------------------------ degenerate inputs
ZeroWeights == self.vector_weight = 0 /\ self.graph_weight = 0

\* C17 (total on degenerate inputs): _merge_and_rerank and _enforce_diversity
\* return without an error for empty lists and for zero weights;
\* _enforce_diversity on an empty list returns the empty list for every
\* top_k and every threshold; _merge_and_rerank on two empty lists returns
\* the empty list; with both weights zero every final score is 0 and the
\* list returned still has no repeated id and, for top_k >= 1, at most top_k
\* elements.
C17_Degenerate ==
    \A c \in Calls :
        /\ Returned(c) => error[c] = "none"
        /\ (Returned(c) /\ InputRefs(c) = {}) => result[c] = <<>>
        /\ (Fused(c) /\ ZeroWeights) =>
              /\ \A i \in 1..ResultLen(c) : ResultChunk(c, i).final_score = 0
              /\ \A i, j \in 1..ResultLen(c) :
                    i # j => ResultChunk(c, i).chunk_id # ResultChunk(c, j).chunk_id
              /\ k[c] >= 1 => ResultLen(c) <= k[c]

\* both weights are zero, an id repeats in the input, top_k = 2 and two
\* candidates came back with final score 0 while a third distinct id, whose
\* text duplicates neither, was cut by the bound
C17_Witness ==
    /\ Fused(1)
    /\ ZeroWeights
    /\ k[1] = 2
    /\ ResultLen(1) = 2
    /\ ResultChunk(1, 1).vector_score > 0
    /\ ResultChunk(1, 1).final_score = 0
    /\ Cardinality(InputRefs(1)) > Cardinality(InputIds(1))
    /\ \E r \in InputRefs(1) :
          /\ heap[r].chunk_id \notin IdsOf(ToSet(result[1]))
          /\ ~RepeatsOneOf(heap, r, result[1], DefaultSimilarityThreshold)

\* ---------------------------------------------------------- threshold zero
\* the two texts have a word in common
SharesWord(text1, text2) == Words[text1] \cap Words[text2] # {}

\* the direct call of _enforce_diversity ran with threshold 0 on a non-empty
\* list and top_k >= 1
FilteredAtZero(c) ==
    /\ pc[c] = "filtered"
    /\ threshold[c] = 0
    /\ Chunks(c) # <<>>
    /\ k[c] >= 1

\* C18 (threshold zero), as claimed: with threshold 0 and a non-empty list
\* _enforce_diversity returns exactly one candidate, for every top_k >= 1
\* and every set of candidate texts.
C18_ExactlyOne ==
    \A c \in Calls : FilteredAtZero(c) => ResultLen(c) = 1

\* C18 (threshold zero), amended: with threshold 0 and a non-empty list
\* _enforce_diversity returns the top candidate first, and never two
\* candidates that have the same text or a word in common; it returns
\* exactly one candidate when every later candidate has the text of the top
\* one or shares a word with it.  A candidate with no word in common with
\* the selected ones is kept, its overlap 0 not being above the threshold.
C18_ThresholdZero ==
    \A c \in Calls : FilteredAtZero(c) =>
        /\ result[c][1] = Chunks(c)[1]
        /\ \A i, j \in 1..ResultLen(c) : i # j =>
              /\ ~StrEq(ResultChunk(c, i).text, ResultChunk(c, j).text)
              /\ ~SharesWord(ResultChunk(c, i).text, ResultChunk(c, j).text)
        /\ (\A q \in 2..Len(Chunks(c)) :
               \/ StrEq(heap[Chunks(c)[q]].text, heap[Chunks(c)[1]].text)
               \/ SharesWord(heap[Chunks(c)[q]].text, heap[Chunks(c)[1]].text))
           => ResultLen(c) = 1

\* threshold 0 and top_k = 3: the second candidate, sharing words with the
\* top one without having its text, was rejected, and a later candidate
\* with no word in common was kept, so two came back
C18_Witness ==
    /\ FilteredAtZero(1)
    /\ k[1] = 3
    /\ ResultLen(1) = 2
    /\ Len(Chunks(1)) >= 3
    /\ Chunks(1)[2] \notin ToSet(result[1])
    /\ ~StrEq(heap[Chunks(1)[2]].text, heap[Chunks(1)[1]].text)
    /\ SharesWord(heap[Chunks(1)[2]].text, heap[Chunks(1)[1]].text)
    /\ ~SharesWord(ResultChunk(1, 2).text, ResultChunk(1, 1).text)

\* ------------------------------------------------------------ overlap ratio
\* the lowercased whitespace-delimited tokens of a text: every maximal run
\* of characters that are not whitespace, each character lowered
Tokens(text) ==
    LET n == Len(text)
        IsRun(i, j) ==
            /\ i <= j
            /\ \A x \in i..j : text[x] \notin Whitespace
            /\ (i = 1 \/ text[i - 1] \in Whitespace)
            /\ (j = n \/ text[j + 1] \in Whitespace)
    IN  { [x \in 1..(p[2] - p[1] + 1) |-> LowerChar(text[p[1] + x - 1])] :
            p \in {q \in (1..n) \X (1..n) : IsRun(q[1], q[2])} }

\* _compute_overlap has returned
OverlapComputed == overlap.pc = "returned"

\* C19 (overlap ratio): _compute_overlap(t1, t2) is |W1 \cap W2| / |W1 \cup W2|
\* for the token sets W1 and W2 of the two texts when both are non-empty; it
\* has the same value with the arguments exchanged, lies in [0, 1], is 1 for
\* the same non-empty token set, 0 for disjoint token sets, and 0 when either
\* text has no token.
C19_OverlapRatio ==
    OverlapComputed =>
        LET W1 == Tokens(overlap.text1)
            W2 == Tokens(overlap.text2)
            r == overlap.ratio
            swapped == OverlapRatio(WordSet(overlap.text2), WordSet(overlap.text1))
        IN  /\ r[2] > 0
            /\ (W1 # {} /\ W2 # {}) =>
                  r[1] * Cardinality(W1 \cup W2) = Cardinality(W1 \cap W2) * r[2]
            /\ r[1] * swapped[2] = swapped[1] * r[2]
            /\ 0 <= r[1] /\ r[1] <= r[2]
            /\ (W1 = W2 /\ W1 # {}) => r[1] = r[2]
            /\ W1 \cap W2 = {} => r[1] = 0
            /\ (W1 = {} \/ W2 = {}) => r[1] = 0

\* "A b" and "b a" differ in case and word order and have the same two
\* tokens: the ratio is 2/2
C19_Witness ==
    /\ OverlapComputed
    /\ overlap.text1 = <<"A", " ", "b">>
    /\ overlap.text2 = <<"b", " ", "a">>
    /\ overlap.ratio = <<2, 2>>

\* -------------------------------------------------------- request isolation
\* the objects of call c are as _vector_search and _graph_traverse built
\* them from the provider responses: nothing has written into them
AsBuilt(c) ==
    /\ \A r \in ToSet(vector_results[c]) :
          heap[r].graph_score = 0 /\ heap[r].final_score = 10 * heap[r].vector_score
    /\ \A r \in ToSet(graph_results[c]) :
          heap[r].vector_score = 0 /\ heap[r].final_score = 10 * heap[r].graph_score

\* the objects _merge_and_rerank returns when the call runs alone: the heap
\* holds the call's own objects and no other, vector results first
AloneResult(c) ==
    LET nv == Len(vector_results[c])
        ng == Len(graph_results[c])
        own == [i \in 1..nv |-> heap[vector_results[c][i]]]
               \o [i \in 1..ng |-> heap[graph_results[c][i]]]
        out == _merge_and_rerank(own, [i \in 1..nv |-> i], [i \in 1..ng |-> nv + i],
                                 k[c], self.vector_weight, self.graph_weight)
    IN  [i \in 1..Len(out.result) |-> out.heap[out.result[i]]]

\* C20 (request isolation): with the steps of two retrieve calls on the same
\* retriever in any order, no step changes the retriever's configuration;
\* the two calls hold no object in common; a step of one call leaves the
\* other call's arguments, lists, result and objects as they were; and when
\* a call merges, its objects are as built from its own provider responses
\* and the list it returns is the list it returns when run alone on them.
C20_Isolation ==
    [][/\ self' = self
       /\ InputRefs(1) \cap InputRefs(2) = {}
       /\ \A c \in Calls :
            /\ pc'[c] = pc[c] =>
                  /\ args'[c] = args[c] /\ k'[c] = k[c]
                  /\ vector_results'[c] = vector_results[c]
                  /\ graph_results'[c] = graph_results[c]
                  /\ result'[c] = result[c]
                  /\ invoked'[c] = invoked[c] /\ error'[c] = error[c]
                  /\ \A r \in InputRefs(c) : heap'[r] = heap[r]
            /\ (pc[c] = "merge" /\ pc'[c] = "done") =>
                  /\ AsBuilt(c)
                  /\ [i \in 1..Len(result'[c]) |-> heap'[result'[c][i]]] = AloneResult(c)
      ]_vars

\* call 2 searched between the vector search and the graph traversal of
\* call 1; both got chunk c2 from the index and both returned it, call 1
\* with the graph score merged in (0.74), call 2, without graph, at 0.42
C20_Witness ==
    /\ pc[1] = "done" /\ pc[2] = "done"
    /\ ~args[2].enable_graph
    /\ vector_results[1] # <<>> /\ vector_results[2] # <<>> /\ graph_results[1] # <<>>
    /\ vector_results[1][1] < vector_results[2][1]
    /\ vector_results[2][1] < graph_results[1][1]
    /\ \E i \in 1..ResultLen(1) : \E j \in 1..ResultLen(2) :
          /\ ResultChunk(1, i).chunk_id = "c2"
          /\ ResultChunk(2, j).chunk_id = "c2"
          /\ ResultChunk(1, i).final_score = 74
          /\ ResultChunk(2, j).final_score = 42

\* ------------------------------------------------------ order of the calls
\* the provider operations of a call, in the order retrieve makes them
ProviderOrder == <<"encode_query", "search", "find_related_chunks">>

\* the operations call c invoked, in order
OpsInOrder(c) == [i \in 1..Len(invoked[c]) |-> invoked[c][i].op]

\* the log of call c is a beginning of ProviderOrder, and the graph
\* repository was called only with vector results in hand
InOrder(c) ==
    /\ Len(invoked[c]) <= Len(ProviderOrder)
    /\ OpsInOrder(c) = SubSeq(ProviderOrder, 1, Len(invoked[c]))
    /\ "find_related_chunks" \in Ops(c) => vector_results[c] # <<>>

\* C21 (sequential, retry-free orchestration): in every call of retrieve
\* encode_query, the vector search and the graph traversal are each invoked
\* at most once and in that order, the graph traversal only after the vector
\* search has returned its hits; once a provider has raised, no provider is
\* invoked again in that call.
C21_Sequential ==
    [][\A c \in Calls :
          /\ InOrder(c)'
          /\ error[c] # "none" => invoked'[c] = invoked[c]
      ]_vars

\* a call went through the three providers, one invocation each, and
\* returned a fused list
C21_Witness ==
    /\ pc[1] = "done"
    /\ OpsInOrder(1) = ProviderOrder
    /\ error[1] = "none"
    /\ ResultLen(1) >= 1

\* ----------------------------------------------------------- frame of fusion
\* an object without its two scoring fields
Unscored(chunk) == [chunk EXCEPT !.graph_score = 0, !.final_score = 0]

\* a call of _merge_and_rerank by call c, first or second
MergeStep(c) ==
    \/ pc[c] = "merge" /\ pc'[c] = "done"
    \/ pc[c] = "done" /\ pc'[c] = "again"

\* C22 (frame of fusion): a call of _merge_and_rerank writes only the
\* graph_score and final_score of objects: chunk_id, document_id, text,
\* hierarchy_path, vector_score and metadata of every input object, and so
\* of every returned one, are as before the call; no object is created and
\* the two input lists are as before.
C22_Frame ==
    [][\A c \in Calls : MergeStep(c) =>
          /\ Len(heap') = Len(heap)
          /\ \A r \in 1..Len(heap) : Unscored(heap'[r]) = Unscored(heap[r])
          /\ ToSet(result'[c]) \subseteq InputRefs(c)
          /\ vector_results'[c] = vector_results[c]
          /\ graph_results'[c] = graph_results[c]
      ]_vars

\* the call returned a vector object whose graph_score and final_score it
\* wrote (0.7 and 0.8 give 0.74), with its text and metadata as built from
\* the hit
C22_Witness ==
    /\ Fused(1)
    /\ \E v \in ToSet(vector_results[1]) \cap ToSet(result[1]) :
          /\ heap[v].graph_score = 8
          /\ heap[v].final_score = 74
          /\ heap[v].vector_score = 7
          /\ heap[v].text = "T19"
          /\ heap[v].metadata = "m2"

\* ---------------------------------------------------- single-source defaults
\* C23 (single-source defaults), as claimed: in the list _merge_and_rerank
\* returns, a candidate whose id occurs only in the vector list has
\* graph_score 0 and final_score vector_weight * vector_score, and one whose
\* id occurs only in the graph list has vector_score 0 and final_score
\* graph_weight * graph_score, whatever scores the input objects carried.
C23_SingleSourceDefaults ==
    \A c \in Calls : Fused(c) =>
        \A i \in 1..ResultLen(c) :
            LET x == ResultChunk(c, i)
                inVector == PositionsOf(heap, vector_results[c], x.chunk_id) # {}
                inGraph == PositionsOf(heap, graph_results[c], x.chunk_id) # {}
            IN  /\ (inVector /\ ~inGraph) =>
                      /\ x.graph_score = 0
                      /\ x.final_score = self.vector_weight * x.vector_score
                /\ (inGraph /\ ~inVector) =>
                      /\ x.vector_score = 0
                      /\ x.final_score = self.graph_weight * x.graph_score

\* -------------------------------------------------------- graph score
\* the graph repository of call c returned and the objects stand as built
GraphReturned(c) == pc[c] = "merge" /\ "find_related_chunks" \in Ops(c)

\* C24 (graph score hand-over), as claimed: the object retrieve builds from
\* a record of the graph repository has the graph_score the repository
\* computed for that record, 1 / (1 + distance), so of two records the one
\* found at the smaller distance gives the larger graph_score.
C24_GraphScoreHandOver ==
    \A c \in Calls : GraphReturned(c) =>
        \A i, j \in 1..Len(graph_related[c]) :
            LET gi == heap[graph_results[c][i]].graph_score
                gj == heap[graph_results[c][j]].graph_score
            IN  /\ gi = graph_related[c][i].relevance_score
                /\ graph_related[c][i].relevance_score > graph_related[c][j].relevance_score
                      => gi > gj

\* ------------------------------------------------------ graph call arguments
\* the invocations of the graph repository by call c
GraphCalls(c) ==
    {invoked[c][i] : i \in {j \in 1..Len(invoked[c]) :
                               invoked[c][j].op = "find_related_chunks"}}

\* C25 (graph call arguments): every invocation of the graph repository by
\* retrieve passes as seed ids the chunk ids of all the candidates vector
\* search returned, in result order, as max depth the retriever's graph
\* depth, 3 by default, and as result cap 50, whatever top_k is.
C25_GraphArguments ==
    \A c \in Calls : \A g \in GraphCalls(c) :
        /\ g.chunk_ids = [i \in 1..Len(vector_results[c]) |->
                             heap[vector_results[c][i]].chunk_id]
        /\ g.max_depth = self.graph_depth
        /\ self.graph_depth = GRAPH_TRAVERSAL_DEPTH
        /\ g.max_results = GraphMaxResults

\* with top_k = 1 vector search returned the two hits its limit allows, one
\* id after the other, and both ids went to the graph repository
C25_Witness ==
    /\ args[1].top_k = Some(1)
    /\ Len(vector_results[1]) = 2
    /\ \E g \in GraphCalls(1) :
          /\ g.chunk_ids = <<"c2", "c1">>
          /\ g.max_depth = 3
          /\ g.max_results = 50

\* ------------------------------------------------------------- tie-break
\* the place of an id in chunk_map: ids of the vector list in order of first
\* appearance, then the ids only the graph list has, in its order
InsertionRank(c, id) ==
    LET vpos == PositionsOf(heap, vector_results[c], id)
        gpos == PositionsOf(heap, graph_results[c], id)
    IN  IF vpos # {} THEN Smallest(vpos)
        ELSE Len(vector_results[c]) + Smallest(gpos)

\* C26 (deterministic tie-break): two candidates of the list
\* _merge_and_rerank returns that have the same final score stand in
\* map-insertion order: first appearance of their ids in the vector list,
\* then the graph-only ids in graph-list order.
C26_StableTies ==
    \A c \in Calls : Fused(c) =>
        \A i, j \in 1..ResultLen(c) :
            (i < j /\ ResultChunk(c, i).final_score = ResultChunk(c, j).final_score)
                => InsertionRank(c, ResultChunk(c, i).chunk_id)
                      < InsertionRank(c, ResultChunk(c, j).chunk_id)

\* default weights: two candidates tied at a positive final score came back
\* in insertion order, behind a candidate that was inserted after both and
\* scored higher
C26_Witness ==
    /\ Fused(1)
    /\ self = NewRetriever
    /\ ResultLen(1) = 3
    /\ ResultChunk(1, 2).final_score = ResultChunk(1, 3).final_score
    /\ ResultChunk(1, 2).final_score > 0
    /\ ResultChunk(1, 1).final_score > ResultChunk(1, 2).final_score
    /\ InsertionRank(1, ResultChunk(1, 1).chunk_id)
          > InsertionRank(1, ResultChunk(1, 3).chunk_id)

\* ------------------------------------------------------ greedy maximality
\* the candidates selected among the first q - 1 of the list
SelectedBefore(c, q) ==
    {p \in 1..(q - 1) : Chunks(c)[p] \in ToSet(result[c])}

\* candidate q has the text of, or an overlap above the threshold with, a
\* candidate selected before it
DuplicatesEarlier(c, q) ==
    \E p \in SelectedBefore(c, q) :
        \/ StrEq(heap[Chunks(c)[q]].text, heap[Chunks(c)[p]].text)
        \/ RatioGT(_compute_overlap(heap[Chunks(c)[q]].text, heap[Chunks(c)[p]].text),
                   threshold[c])

\* C27 (greedy maximality): a candidate of the list handed to
\* _enforce_diversity is absent from the output only if top_k candidates
\* were selected before it, or it has the text of, or an overlap above the
\* threshold with, a candidate selected before it; so when the output has
\* fewer than top_k elements every omitted candidate duplicates a selected
\* candidate ranked before it.
C27_GreedyMaximal ==
    \A c \in Calls : pc[c] = "filtered" =>
        \A q \in 1..Len(Chunks(c)) : Chunks(c)[q] \notin ToSet(result[c]) =>
            /\ \/ Cardinality(SelectedBefore(c, q)) >= k[c]
               \/ DuplicatesEarlier(c, q)
            /\ ResultLen(c) < k[c] => DuplicatesEarlier(c, q)

\* threshold 0.95 and top_k = 3: the second candidate was dropped as a
\* near duplicate of the first, the third was kept after it, the list ended
\* with two candidates and nothing else to take
C27_Witness ==
    /\ pc[1] = "filtered"
    /\ threshold[1] = DefaultSimilarityThreshold
    /\ k[1] = 3
    /\ Len(Chunks(1)) = 3
    /\ result[1] = <<Chunks(1)[1], Chunks(1)[3]>>
    /\ ~StrEq(heap[Chunks(1)[2]].text, heap[Chunks(1)[1]].text)
    /\ DuplicatesEarlier(1, 2)

\* ---------------------------------------------------------------- top pick
\* C28 (top pick is unconditional): for every non-empty list the output of
\* _enforce_diversity is non-empty and begins with the first candidate of
\* the list, for every top_k and every threshold; with top_k <= 0 the output
\* is that one candidate, more than top_k.
C28_TopPick ==
    \A c \in Calls : (pc[c] = "filtered" /\ Chunks(c) # <<>>) =>
        /\ ResultLen(c) >= 1
        /\ result[c][1] = Chunks(c)[1]
        /\ k[c] <= 0 => (ResultLen(c) = 1 /\ ResultLen(c) > k[c])

\* top_k = 0 and three candidates, the second unlike the first: one came
\* back, the first
C28_Witness ==
    /\ pc[1] = "filtered"
    /\ k[1] = 0
    /\ Len(Chunks(1)) = 3
    /\ ~RepeatsOneOf(heap, Chunks(1)[2], <<Chunks(1)[1]>>, threshold[1])
    /\ result[1] = <<Chunks(1)[1]>>

\* ---------------------------------------------------------- repeated ids
\* C29 (repeated ids inside one list): in a call of _merge_and_rerank the
\* merged candidate of an id the graph list has takes the graph_score of
\* the last graph object with that id, not the highest; the merged
\* candidate of an id the vector list has is the last vector object with
\* that id, which supplies vector_score, text and metadata, and no earlier
\* object with that id is returned.
C29_LastOccurrence ==
    [][\A c \in Calls : (pc[c] = "merge" /\ pc'[c] = "done") =>
        \A id \in InputIds(c) :
            LET vpos == PositionsOf(heap, vector_results[c], id)
                gpos == PositionsOf(heap, graph_results[c], id)
                m == MergedCandidate(c, id)
            IN  /\ gpos # {} =>
                    heap'[m].graph_score
                        = heap[graph_results[c][Largest(gpos)]].graph_score
                /\ vpos # {} =>
                    /\ m = vector_results[c][Largest(vpos)]
                    /\ heap'[m].vector_score = heap[m].vector_score
                    /\ heap'[m].text = heap[m].text
                    /\ heap'[m].metadata = heap[m].metadata
                /\ \A x \in ToSet(result'[c]) : heap'[x].chunk_id = id => x = m
      ]_vars

\* c2 came twice in the vector list (0.7, then 0.9 with another text) and
\* twice in the graph list (0.8, then 0.6): the candidate returned is the
\* second vector object, with graph score 0.6 and final score 0.78
C29_Witness ==
    /\ Fused(1)
    /\ self = NewRetriever
    /\ Len(vector_results[1]) = 2 /\ Len(graph_results[1]) = 2
    /\ \A r \in InputRefs(1) : heap[r].chunk_id = "c2"
    /\ heap[vector_results[1][1]].vector_score = 7
    /\ heap[graph_results[1][1]].graph_score = 8
    /\ result[1] = <<vector_results[1][2]>>
    /\ ResultChunk(1, 1).vector_score = 9
    /\ ResultChunk(1, 1).text = "T20"
    /\ ResultChunk(1, 1).graph_score = 6
    /\ ResultChunk(1, 1).final_score = 78

\* ------------------------------------------------------ streaming protocol
Events == stream.events

\* the events form metadata, text*, done, or a beginning of that form, or
\* such a beginning followed by one error event
WellFormedEvents(ev) ==
    \A i \in 1..Len(ev) :
        /\ ev[i] \in {"metadata", "text", "done", "error"}
        /\ ev[i] = "metadata" <=> (i = 1 /\ ev[i] # "error")
        /\ ev[i] \in {"done", "error"} => i = Len(ev)

\* C30 (streaming event protocol): the events a run of query_stream has
\* yielded are metadata, text*, done, or a beginning of that cut short by
\* one error event; nothing follows a done or error event and no text event
\* comes before the metadata event; the language model is invoked at most
\* once and only after metadata; when retrieve returned no chunk the run
\* yields exactly metadata, text, done and never invokes the language model.
C30_StreamProtocol ==
    /\ WellFormedEvents(Events)
    /\ stream.llm_calls <= 1
    /\ stream.llm_calls = 1 => (Events # <<>> /\ Events[1] = "metadata")
    /\ (stream.pc # "idle" /\ pc[1] = "done" /\ result[1] = <<>>) =>
          /\ stream.llm_calls = 0
          /\ \E n \in 0..3 : Events = SubSeq(<<"metadata", "text", "done">>, 1, n)
          /\ stream.pc = "ended" => Events = <<"metadata", "text", "done">>
    /\ stream.pc = "ended" => (Events # <<>> /\ Events[Len(Events)] \in {"done", "error"})

\* retrieve returned chunks, the language model streamed two chunks and
\* then failed: metadata, text, text, error
C30_Witness ==
    /\ stream.pc = "ended"
    /\ ResultLen(1) >= 1
    /\ stream.llm_calls = 1
    /\ Events = <<"metadata", "text", "text", "error">>

====
